---- MODULE Spec2Model ----
(***************************************************************************)
(* A model of esunday5/my-todo-app (src/app.py): a Flask task manager over *)
(* three PostgreSQL relations (users, categories, tasks).  The state is    *)
(* the three tables, the tasks id sequence, each browser's session cookie, *)
(* the wall clock, the reachability of the store and the last request      *)
(* with its response.  Every route handler is one action.                  *)
(*                                                                         *)
(* Conventions.  Time is in whole seconds since 1970-01-01T00:00.  A       *)
(* nullable TIMESTAMP column holds <<>> (NULL) or <<t>>.  A nullable text  *)
(* or uuid column, an absent form field and Python's None hold NULL.       *)
(* completion_rate is kept in tenths of a percent (500 is 50.0).           *)
(***************************************************************************)
EXTENDS Integers, Sequences, FiniteSets, TLC

VARIABLES users, categories, tasks, task_seq, session, now, dbUp, last, txn

vars == <<users, categories, tasks, task_seq, session, now, dbUp, last, txn>>

tables == <<users, categories, tasks>>

-----------------------------------------------------------------------------
(* Bounds of the model *)

\* the tasks id sequence hands out at most this many ids
MaxTasks == 2

\* the number of task rows the listing specification starts from
MaxViewTasks == 3

-----------------------------------------------------------------------------
(* Values *)

NULL == "NULL"

NOTIME == <<>>

At(t) == <<t>>

Clients == {"c1", "c2"}

\* the server threads that can be inside toggle_task at once, and what one
\* holds between its SELECT and its UPDATE: the session's user, the task id
\* and the fetched row (<<>>: none)
Workers == {"w1", "w2"}

Idle == [busy |-> FALSE, client |-> "", user |-> NULL, task_id |-> 0, read |-> <<>>]

\* the points the wall clock visits
ClockPoints == {3600, 7200, 90000, 91800, 93510, 93600}

\* due dates as the datetime-local form control submits them
IsoTable ==
    [s \in {"1970-01-02T01:00", "1970-01-02T02:00"} |->
        IF s = "1970-01-02T01:00" THEN 90000 ELSE 93600]

Whitespace == {" "}

\* Python truthiness of an optional string
Truthy(s) == s # NULL /\ s # ""

-----------------------------------------------------------------------------
(* Pure helpers *)

hash_password(password) == "sha256:" \o password

LowerTable == [s \in {"A@X"} |-> "a@x"]

\* str.lower()
Lower(s) == IF s \in DOMAIN LowerTable THEN LowerTable[s] ELSE s

RECURSIVE lstrip(_)
lstrip(s) == IF s # "" /\ Head(s) \in Whitespace THEN lstrip(Tail(s)) ELSE s

RECURSIVE rstrip(_)
rstrip(s) ==
    IF s # "" /\ SubSeq(s, Len(s), Len(s)) \in Whitespace
    THEN rstrip(SubSeq(s, 1, Len(s) - 1))
    ELSE s

\* str.strip()
strip(s) == rstrip(lstrip(s))

\* datetime.fromisoformat raises ValueError on anything else
iso_ok(s) == s \in DOMAIN IsoTable

fromisoformat(s) == IsoTable[s]

\* uuid_generate_v4(), as the n-th fresh value
UserId(n) == "u" \o ToString(n)

CatId(n) == "c" \o ToString(n)

\* the strings PostgreSQL accepts as a uuid; the last one names no row
UuidStrings == {CatId(n) : n \in 1..13}

is_uuid(s) == s \in UuidStrings

-----------------------------------------------------------------------------
(* Rows *)

user_row(id, full_name, email, password, ts) ==
    [id |-> id, full_name |-> full_name, email |-> email, password |-> password,
     bio |-> NULL, location |-> NULL, website |-> NULL, profile_picture |-> NULL,
     theme |-> "dark", notifications_enabled |-> TRUE,
     created_at |-> ts, updated_at |-> ts]

default_categories ==
    << <<"Work", "#dc2626", "briefcase">>, <<"Personal", "#d97706", "house">>,
       <<"Health", "#059669", "biceps">>, <<"Learning", "#7c3aed", "books">> >>

create_default_categories(cats, user_id, ts) ==
    cats \cup
    { [id |-> CatId(Cardinality(cats) + k), user_id |-> user_id,
       name |-> default_categories[k][1], color |-> default_categories[k][2],
       icon |-> default_categories[k][3], created_at |-> ts]
      : k \in 1..Len(default_categories) }

\* cats after the first n INSERTs of create_default_categories
default_categories_upto(cats, user_id, ts, n) ==
    cats \cup
    { [id |-> CatId(Cardinality(cats) + k), user_id |-> user_id,
       name |-> default_categories[k][1], color |-> default_categories[k][2],
       icon |-> default_categories[k][3], created_at |-> ts]
      : k \in 1..n }

\* INSERT INTO tasks (user_id, title, description, category_id, priority, due_date)
task_row(id, user_id, title, description, category_id, priority, due_date, ts) ==
    [id |-> id, user_id |-> user_id, title |-> title, description |-> description,
     category_id |-> category_id, priority |-> priority, due_date |-> due_date,
     completed |-> FALSE, completed_at |-> NOTIME,
     created_at |-> ts, updated_at |-> ts]

-----------------------------------------------------------------------------
(* Data access *)

get_db_connection == dbUp

get_user_by_id(user_id) ==
    IF ~get_db_connection THEN {} ELSE {u \in users : u.id = user_id}

get_user_by_email(email) ==
    IF ~get_db_connection THEN {} ELSE {u \in users : u.email = email}

get_user_categories(user_id) ==
    IF ~get_db_connection THEN {} ELSE {g \in categories : g.user_id = user_id}

\* select_task without its owner predicate
select_task_any_owner(task_id, user_id) == {t \in tasks : t.id = task_id}

\* SELECT ... FROM tasks WHERE id = %s AND user_id = %s
select_task(task_id, user_id) ==
    {t \in tasks : t.id = task_id /\ t.user_id = user_id}

\* Orderings for a query that sorts oldest first
Orderings_ascending(S) ==
    LET n == Cardinality(S)
    IN  { s \in [1..n -> S] :
            /\ \A i, j \in 1..n : i # j => s[i] # s[j]
            /\ \A i \in 1..n : i < n => s[i].created_at <= s[i + 1].created_at }

\* every order in which ORDER BY t.created_at DESC may return the rows S
Orderings(S) ==
    LET n == Cardinality(S)
    IN  { s \in [1..n -> S] :
            /\ \A i, j \in 1..n : i # j => s[i] # s[j]
            /\ \A i \in 1..n : i < n => s[i].created_at >= s[i + 1].created_at }

\* t.* with the LEFT JOIN's c.name, c.color, c.icon
joined(t) ==
    LET c == {g \in categories : t.category_id # NULL /\ g.id = t.category_id}
        one == CHOOSE g \in c : TRUE
    IN  [task |-> t,
         category_name |-> IF c = {} THEN NULL ELSE one.name,
         category_color |-> IF c = {} THEN NULL ELSE one.color,
         category_icon |-> IF c = {} THEN NULL ELSE one.icon,
         created_at |-> t.created_at]

\* psycopg2 raises DataError when the category parameter is no uuid
get_user_tasks_raises(category_param) ==
    get_db_connection /\ Truthy(category_param) /\ ~is_uuid(category_param)

\* status_filter whose overdue branch forgets AND t.completed = FALSE
status_filter_overdue_any(t, filter_param) ==
    /\ filter_param = "pending" => ~t.completed
    /\ filter_param = "completed" => t.completed
    /\ filter_param = "overdue" => t.due_date # NOTIME /\ t.due_date[1] < now

\* the status clause appended to the query, as a predicate on the row
status_filter(t, filter_param) ==
    /\ filter_param = "pending" => ~t.completed
    /\ filter_param = "completed" => t.completed
    /\ filter_param = "overdue" =>
          ~t.completed /\ t.due_date # NOTIME /\ t.due_date[1] < now

\* category_filter that lets the rows without category through
category_filter_or_none(t, category_param) ==
    Truthy(category_param) =>
        \/ t.category_id = NULL
        \/ /\ t.category_id = category_param
           /\ \E g \in categories : g.id = t.category_id

\* AND c.id = %s, on the row of the LEFT JOIN
category_filter(t, category_param) ==
    Truthy(category_param) =>
        /\ t.category_id = category_param
        /\ \E g \in categories : g.id = t.category_id

\* get_user_tasks that answers from the table whether or not it connected
get_user_tasks_cached(user_id, filter_param, category_param) ==
    Orderings({ joined(t) : t \in
        { t \in tasks :
            /\ t.user_id = user_id
            /\ status_filter(t, filter_param)
            /\ category_filter(t, category_param) } })

\* the lists fetchall() may return, one per order of equal created_at
get_user_tasks(user_id, filter_param, category_param) ==
    IF ~get_db_connection THEN {<<>>}
    ELSE Orderings({ joined(t) : t \in
            { t \in tasks :
                /\ t.user_id = user_id
                /\ status_filter(t, filter_param)
                /\ category_filter(t, category_param) } })

\* round1 that drops the digits behind the first decimal
round1_truncating(completed, total) == (1000 * completed) \div total

\* round(completed / total * 100, 1) in tenths, ties to even
round1(completed, total) ==
    LET q == (1000 * completed) \div total
        r == (1000 * completed) % total
    IN  IF 2 * r < total THEN q
        ELSE IF 2 * r > total THEN q + 1
        ELSE IF q % 2 = 0 THEN q ELSE q + 1

\* is_overdue that counts a task due this very second
is_overdue_inclusive(r) ==
    /\ ~r.task.completed
    /\ r.task.due_date # NOTIME
    /\ r.task.due_date[1] <= now

\* not t['completed'] and t.get('due_date') and t['due_date'] < datetime.now()
is_overdue(r) ==
    /\ ~r.task.completed
    /\ r.task.due_date # NOTIME
    /\ r.task.due_date[1] < now

\* stats_of with pending counted as the open rows that carry a due date
stats_of_pending_dated(rows) ==
    LET is_completed(r) == r.task.completed
        is_dated(r) == ~r.task.completed /\ r.task.due_date # NOTIME
        total == Len(rows)
        completed == Len(SelectSeq(rows, is_completed))
    IN  [total |-> total, completed |-> completed,
         pending |-> Len(SelectSeq(rows, is_dated)),
         overdue |-> Len(SelectSeq(rows, is_overdue)),
         completion_rate |-> IF total > 0 THEN round1(completed, total) ELSE 0]

stats_of(rows) ==
    LET is_completed(r) == r.task.completed
        total == Len(rows)
        completed == Len(SelectSeq(rows, is_completed))
    IN  [total |-> total, completed |-> completed, pending |-> total - completed,
         overdue |-> Len(SelectSeq(rows, is_overdue)),
         completion_rate |-> IF total > 0 THEN round1(completed, total) ELSE 0]

calculate_stats(user_id) ==
    { stats_of(rows) : rows \in get_user_tasks(user_id, NULL, NULL) }

two_digits(n) == IF n < 10 THEN "0" \o ToString(n) ELSE ToString(n)

\* due_date.strftime('%H:%M')
strftime_HM(t) == two_digits((t \div 3600) % 24) \o ":" \o two_digits((t \div 60) % 60)

\* the horizon of get_due_notifications and its urgent threshold, in seconds
DayHorizon == 86400

UrgentHorizon == 3600

\* notification that still calls a task due in exactly one hour urgent
notification_urgent_inclusive(row) ==
    LET due_date == row.task.due_date[1]
        time_diff == due_date - now
    IN  IF time_diff <= UrgentHorizon
        THEN [task |-> row, urgency |-> "urgent",
              message |-> "Due in " \o ToString(time_diff \div 60) \o " minutes",
              due_date |-> due_date]
        ELSE [task |-> row, urgency |-> "today",
              message |-> "Due today at " \o strftime_HM(due_date),
              due_date |-> due_date]

notification(row) ==
    LET due_date == row.task.due_date[1]
        time_diff == due_date - now
    IN  IF time_diff < UrgentHorizon
        THEN [task |-> row, urgency |-> "urgent",
              message |-> "Due in " \o ToString(time_diff \div 60) \o " minutes",
              due_date |-> due_date]
        ELSE [task |-> row, urgency |-> "today",
              message |-> "Due today at " \o strftime_HM(due_date),
              due_date |-> due_date]

\* is_due_soon with the 24 hour horizon exclusive
is_due_soon_exclusive(row) ==
    /\ row.task.due_date # NOTIME
    /\ 0 < row.task.due_date[1] - now
    /\ row.task.due_date[1] - now < DayHorizon

\* 0 < time_diff.total_seconds() <= 86400
is_due_soon(row) ==
    /\ row.task.due_date # NOTIME
    /\ 0 < row.task.due_date[1] - now
    /\ row.task.due_date[1] - now <= DayHorizon

RECURSIVE notifications_of(_)
notifications_of(rows) ==
    IF rows = <<>> THEN <<>>
    ELSE (IF is_due_soon(Head(rows)) THEN <<notification(Head(rows))>> ELSE <<>>)
         \o notifications_of(Tail(rows))

\* x placed behind every element whose key is not greater: a stable insertion
insert_by_due(s, x) ==
    LET k == Cardinality({i \in 1..Len(s) : s[i].due_date <= x.due_date})
    IN  SubSeq(s, 1, k) \o <<x>> \o SubSeq(s, k + 1, Len(s))

\* sorted that hands the list back in the order of the query
sorted_as_fetched(s) == s

RECURSIVE sorted(_)
sorted(s) ==
    IF s = <<>> THEN <<>>
    ELSE insert_by_due(sorted(SubSeq(s, 1, Len(s) - 1)), s[Len(s)])

get_due_notifications(user_id) ==
    { sorted(notifications_of(rows)) : rows \in get_user_tasks(user_id, "pending", NULL) }

-----------------------------------------------------------------------------
(* Requests and responses *)

Request(c, op, method, arg) ==
    [op |-> op, method |-> method, client |-> c, user |-> session[c], arg |-> arg]

\* the request and its response; read is what a toggle's SELECT returned, and
\* again tells a toggle that follows a toggle of the same task by the same user
Answer(req, status, target, flash, read, page) ==
    last' = [op |-> req.op, method |-> req.method, client |-> req.client,
             user |-> req.user, arg |-> req.arg, status |-> status,
             target |-> target, flash |-> flash, read |-> read, page |-> page,
             again |-> /\ req.op = "toggle_task" /\ read # <<>>
                       /\ last.op = "toggle_task" /\ last.read # <<>>
                       /\ last.arg = req.arg /\ last.user = req.user]

\* the response of a handler that ran from its first statement to its return:
\* the requests other threads are serving stay where they are
Respond(req, status, target, flash, read, page) ==
    /\ Answer(req, status, target, flash, read, page)
    /\ UNCHANGED txn

Redirect(req, target, flash) == Respond(req, "redirect", target, flash, <<>>, <<>>)

Render(req, template, flash, page) == Respond(req, "render", template, flash, <<>>, page)

\* an exception leaves the handler: nothing is committed, the response is a 500
Fault(req) ==
    /\ Respond(req, "fault", "", "", <<>>, <<>>)
    /\ UNCHANGED <<users, categories, tasks, task_seq, session, now, dbUp>>

\* a handler left undecorated: session['user_id'] raises KeyError
login_required_missing(c, req, f) == IF session[c] = NULL THEN Fault(req) ELSE f

login_required(c, req, f) ==
    IF session[c] = NULL
    THEN /\ Redirect(req, "login", "Please log in to access this page.")
         /\ UNCHANGED <<users, categories, tasks, task_seq, session, now, dbUp>>
    ELSE f

-----------------------------------------------------------------------------
(* Session lifecycle *)

\* INSERT INTO users ... RETURNING id, then create_default_categories
insert_user(full_name, email, hashed_pw) ==
    LET user_id == UserId(Cardinality(users) + 1)
    IN  /\ users' = users \cup {user_row(user_id, full_name, email, hashed_pw, now)}
        /\ categories' = create_default_categories(categories, user_id, now)

\* login that does not compare the password of a stored user
login_unchecked(c, method, form) ==
    LET req == Request(c, "login", method, 0)
        email == Lower(form.email)
        create == email = "test@example.com" /\ get_user_by_email(email) = {}
        hashed_pw == hash_password("password123")
        found == IF create
                 THEN IF hashed_pw = hash_password(form.password)
                      THEN {UserId(Cardinality(users) + 1)} ELSE {}
                 ELSE {u.id : u \in get_user_by_email(email)}
    IN  IF session[c] # NULL
        THEN /\ Redirect(req, "dashboard", "")
             /\ UNCHANGED <<users, categories, tasks, task_seq, session, now, dbUp>>
        ELSE IF method # "POST"
        THEN /\ Render(req, "LOGIN", "", <<>>)
             /\ UNCHANGED <<users, categories, tasks, task_seq, session, now, dbUp>>
        ELSE IF create /\ ~get_db_connection
        THEN Fault(req)
        ELSE /\ IF create
                THEN insert_user("Test User", "test@example.com", hashed_pw)
                ELSE UNCHANGED <<users, categories>>
             /\ IF found # {}
                THEN /\ session' = [session EXCEPT ![c] = CHOOSE id \in found : TRUE]
                     /\ Redirect(req, "dashboard", "")
                ELSE /\ UNCHANGED session
                     /\ Render(req, "LOGIN", "Invalid email or password.", <<>>)
             /\ UNCHANGED <<tasks, task_seq, now, dbUp>>

login(c, method, form) ==
    LET req == Request(c, "login", method, 0)
        email == Lower(form.email)
        create == email = "test@example.com" /\ get_user_by_email(email) = {}
        hashed_pw == hash_password("password123")
        found == IF create
                 THEN IF hashed_pw = hash_password(form.password)
                      THEN {UserId(Cardinality(users) + 1)} ELSE {}
                 ELSE {u.id : u \in {u \in get_user_by_email(email) :
                                        u.password = hash_password(form.password)}}
    IN  IF session[c] # NULL
        THEN /\ Redirect(req, "dashboard", "")
             /\ UNCHANGED <<users, categories, tasks, task_seq, session, now, dbUp>>
        ELSE IF method # "POST"
        THEN /\ Render(req, "LOGIN", "", <<>>)
             /\ UNCHANGED <<users, categories, tasks, task_seq, session, now, dbUp>>
        ELSE IF create /\ ~get_db_connection
        THEN Fault(req)
        ELSE /\ IF create
                THEN insert_user("Test User", "test@example.com", hashed_pw)
                ELSE UNCHANGED <<users, categories>>
             /\ IF found # {}
                THEN /\ session' = [session EXCEPT ![c] = CHOOSE id \in found : TRUE]
                     /\ Redirect(req, "dashboard", "")
                ELSE /\ UNCHANGED session
                     /\ Render(req, "LOGIN", "Invalid email or password.", <<>>)
             /\ UNCHANGED <<tasks, task_seq, now, dbUp>>

\* the shortest password signup accepts
MinPassword == 6

\* the statements of signup's transaction: one INSERT INTO users and the
\* INSERTs of create_default_categories
SignupStatements == 1 + Len(default_categories)

\* close_uncommitted on a connection in autocommit mode
close_uncommitted_autocommit(done) == done

\* how many of the done statements outlive conn.close() without conn.commit():
\* psycopg2 runs them in one transaction, which the close rolls back
close_uncommitted(done) == 0

\* signup, with failed_at the statement of its transaction that raises (0: none)
signup_at(c, method, form, failed_at) ==
    LET req == Request(c, "signup", method, failed_at)
        email == Lower(form.email)
        user_id == UserId(Cardinality(users) + 1)
        kept == IF failed_at = 0 THEN SignupStatements
                ELSE close_uncommitted(failed_at - 1)
    IN  IF session[c] # NULL
        THEN /\ Redirect(req, "dashboard", "")
             /\ UNCHANGED <<users, categories, tasks, task_seq, session, now, dbUp>>
        ELSE IF method # "POST"
        THEN /\ Render(req, "SIGNUP", "", <<>>)
             /\ UNCHANGED <<users, categories, tasks, task_seq, session, now, dbUp>>
        ELSE IF form.password # form.confirm_password
        THEN /\ Render(req, "SIGNUP", "Passwords do not match.", <<>>)
             /\ UNCHANGED <<users, categories, tasks, task_seq, session, now, dbUp>>
        ELSE IF Len(form.password) < MinPassword
        THEN /\ Render(req, "SIGNUP", "Password must be at least 6 characters long.", <<>>)
             /\ UNCHANGED <<users, categories, tasks, task_seq, session, now, dbUp>>
        ELSE IF get_user_by_email(email) # {}
        THEN /\ Render(req, "SIGNUP", "An account with this email already exists.", <<>>)
             /\ UNCHANGED <<users, categories, tasks, task_seq, session, now, dbUp>>
        ELSE IF ~get_db_connection
        THEN Fault(req)
        ELSE /\ users' = IF kept >= 1
                         THEN users \cup {user_row(user_id, form.full_name, email,
                                                    hash_password(form.password), now)}
                         ELSE users
             /\ categories' = default_categories_upto(categories, user_id, now,
                                                      IF kept >= 1 THEN kept - 1 ELSE 0)
             /\ IF failed_at = 0
                THEN Redirect(req, "login", "Account created successfully! Please log in.")
                ELSE Respond(req, "fault", "", "", <<>>, <<>>)
             /\ UNCHANGED <<tasks, task_seq, session, now, dbUp>>

signup(c, method, form) == signup_at(c, method, form, 0)

logout(c) ==
    /\ session' = [session EXCEPT ![c] = NULL]
    /\ Redirect(Request(c, "logout", "GET", 0), "login", "You have been logged out.")
    /\ UNCHANGED <<users, categories, tasks, task_seq, now, dbUp>>

-----------------------------------------------------------------------------
(* Task handlers *)

Rest == <<users, categories, session, now, dbUp>>

\* the widths of tasks.title and tasks.priority
TitleMax == 255

PriorityMax == 20

\* what makes PostgreSQL reject the row: a malformed uuid, a category that
\* does not exist (the foreign key), a value too long for its column
row_rejected(title, category_id, priority) ==
    \/ category_id # NULL /\ ~is_uuid(category_id)
    \/ category_id # NULL /\ ~(\E g \in categories : g.id = category_id)
    \/ Len(title) > TitleMax
    \/ priority # NULL /\ Len(priority) > PriorityMax

\* form_title without the strip()
form_title_unstripped(form) == IF form.title = NULL THEN "" ELSE form.title

form_title(form) == strip(IF form.title = NULL THEN "" ELSE form.title)

form_category(form) == IF Truthy(form.category) THEN form.category ELSE NULL

form_due_date(form) ==
    IF Truthy(form.due_date) THEN At(fromisoformat(form.due_date)) ELSE NOTIME

\* fromisoformat raises, or the statement is rejected
form_raises(form) ==
    \/ Truthy(form.due_date) /\ ~iso_ok(form.due_date)
    \/ row_rejected(form_title(form), form_category(form), form.priority)

\* what a handler body comes to: its response and the tables it commits
Outcome(status, target, flash, read, page, tasks_, task_seq_) ==
    [status |-> status, target |-> target, flash |-> flash, read |-> read,
     page |-> page, tasks |-> tasks_, task_seq |-> task_seq_]

\* an exception leaves the handler: nothing is committed, the response is a 500
Raised == Outcome("fault", "", "", <<>>, <<>>, tasks, task_seq)

\* the handler's outcome as the step of the request
Commit(req, o) ==
    /\ o.task_seq <= MaxTasks
    /\ tasks' = o.tasks
    /\ task_seq' = o.task_seq
    /\ Respond(req, o.status, o.target, o.flash, o.read, o.page)
    /\ UNCHANGED Rest

dashboard(c, filter_param, category_param) ==
    LET req == Request(c, "dashboard", "GET", 0)
        uid == session[c]
    IN  login_required(c, req,
          IF get_user_by_id(uid) = {}
          THEN /\ Redirect(req, "logout", "")
               /\ UNCHANGED <<tasks, task_seq, Rest>>
          ELSE IF get_user_tasks_raises(category_param)
          THEN Fault(req)
          ELSE /\ \E rows \in get_user_tasks(uid, filter_param, category_param) :
                  \E stats \in calculate_stats(uid) :
                  \E notifications \in get_due_notifications(uid) :
                     Render(req, "MAIN", "",
                            [tasks |-> rows, stats |-> stats,
                             notifications |-> notifications,
                             filter_param |-> filter_param,
                             category_param |-> category_param])
               /\ UNCHANGED <<tasks, task_seq, Rest>>)

\* dashboard when the store is lost behind its get_user_by_id: each helper
\* opens its own connection, and from get_user_tasks on none succeeds
dashboard_outage(c, filter_param, category_param) ==
    LET req == Request(c, "dashboard", "GET", 0)
        uid == session[c]
    IN  login_required(c, req,
          IF get_user_by_id(uid) = {}
          THEN /\ Redirect(req, "logout", "")
               /\ UNCHANGED <<tasks, task_seq, Rest>>
          ELSE /\ dbUp' = FALSE
               /\ UNCHANGED <<users, categories, tasks, task_seq, session, now>>
               /\ \E rows \in get_user_tasks(uid, filter_param, category_param)' :
                  \E stats \in calculate_stats(uid)' :
                  \E notifications \in get_due_notifications(uid)' :
                     Render(req, "MAIN", "",
                            [tasks |-> rows, stats |-> stats,
                             notifications |-> notifications,
                             filter_param |-> filter_param,
                             category_param |-> category_param]))

add_task_body(uid, method, form) ==
    LET title == form_title(form)
    IN  IF method = "POST" /\ title # ""
        THEN IF ~get_db_connection \/ form_raises(form)
             THEN Raised
             ELSE Outcome("redirect", "dashboard", "Task added successfully!", <<>>, <<>>,
                          tasks \cup
                            {task_row(task_seq + 1, uid, title, form.description,
                                      form_category(form), form.priority,
                                      form_due_date(form), now)},
                          task_seq + 1)
        ELSE Outcome("render", "ADD_TASK",
                     IF method = "POST" THEN "Task title is required" ELSE "",
                     <<>>, <<>>, tasks, task_seq)

add_task(c, method, form) ==
    LET req == Request(c, "add_task", method, 0)
    IN  login_required(c, req, Commit(req, add_task_body(session[c], method, form)))

\* update_task that also reopens the task
update_task_reopening(task_id, user_id, form) ==
    { IF t.id = task_id /\ t.user_id = user_id
      THEN [t EXCEPT !.title = form_title(form), !.description = form.description,
                     !.category_id = form_category(form), !.priority = form.priority,
                     !.due_date = form_due_date(form), !.updated_at = now,
                     !.completed = FALSE, !.completed_at = NOTIME]
      ELSE t : t \in tasks }

\* UPDATE tasks SET title, description, category_id, priority, due_date,
\* updated_at = CURRENT_TIMESTAMP WHERE id = %s AND user_id = %s
update_task(task_id, user_id, form) ==
    { IF t.id = task_id /\ t.user_id = user_id
      THEN [t EXCEPT !.title = form_title(form), !.description = form.description,
                     !.category_id = form_category(form), !.priority = form.priority,
                     !.due_date = form_due_date(form), !.updated_at = now]
      ELSE t : t \in tasks }

edit_task_body(uid, task_id, method, form) ==
    LET task == select_task(task_id, uid)
    IN  IF ~get_db_connection
        THEN Raised
        ELSE IF task = {}
        THEN Outcome("redirect", "dashboard", "Task not found.", <<>>, <<>>,
                     tasks, task_seq)
        ELSE IF method = "POST" /\ form_title(form) # ""
        THEN IF form_raises(form)
             THEN Raised
             ELSE Outcome("redirect", "dashboard", "Task updated successfully!",
                          <<>>, <<>>, update_task(task_id, uid, form), task_seq)
        ELSE Outcome("render", "EDIT_TASK",
                     IF method = "POST" THEN "Task title is required" ELSE "",
                     <<>>, [task |-> CHOOSE t \in task : TRUE], tasks, task_seq)

edit_task(c, task_id, method, form) ==
    LET req == Request(c, "edit_task", method, task_id)
    IN  login_required(c, req,
                       Commit(req, edit_task_body(session[c], task_id, method, form)))

\* update_completed that leaves completed_at behind when a task is reopened
update_completed_stale(task_id, new_status, completed_at) ==
    { IF t.id = task_id
      THEN [t EXCEPT !.completed = new_status,
                     !.completed_at = IF new_status THEN completed_at ELSE @]
      ELSE t : t \in tasks }

\* update_completed that also refreshes updated_at
update_completed_touch(task_id, new_status, completed_at) ==
    { IF t.id = task_id
      THEN [t EXCEPT !.completed = new_status, !.completed_at = completed_at,
                     !.updated_at = now]
      ELSE t : t \in tasks }

\* UPDATE tasks SET completed = %s, completed_at = %s WHERE id = %s
update_completed(task_id, new_status, completed_at) ==
    { IF t.id = task_id
      THEN [t EXCEPT !.completed = new_status, !.completed_at = completed_at]
      ELSE t : t \in tasks }

\* a toggle that marks complete whatever it read
new_status_always(completed) == TRUE

\* new_status = not task[0]
new_status_of(completed) == ~completed

toggle_task_body(uid, task_id, referrer) ==
    LET task == select_task(task_id, uid)
        target == IF Truthy(referrer) THEN referrer ELSE "dashboard"
    IN  IF ~get_db_connection
        THEN Raised
        ELSE IF task # {}
        THEN LET completed == (CHOOSE t \in task : TRUE).completed
                 new_status == new_status_of(completed)
                 completed_at == IF new_status THEN At(now) ELSE NOTIME
             IN  Outcome("redirect", target, "", <<completed>>, <<>>,
                         update_completed(task_id, new_status, completed_at), task_seq)
        ELSE Outcome("redirect", target, "", <<>>, <<>>, tasks, task_seq)

toggle_task(c, task_id, referrer) ==
    LET req == Request(c, "toggle_task", "GET", task_id)
    IN  login_required(c, req,
                       Commit(req, toggle_task_body(session[c], task_id, referrer)))

delete_task_body(uid, task_id) ==
    IF ~get_db_connection
    THEN Raised
    ELSE Outcome("redirect", "dashboard", "Task deleted.", <<>>, <<>>,
                 tasks \ select_task(task_id, uid), task_seq)

delete_task(c, task_id) ==
    LET req == Request(c, "delete_task", "GET", task_id)
    IN  login_required(c, req, Commit(req, delete_task_body(session[c], task_id)))

duplicate_task_body(uid, task_id) ==
    LET task == select_task(task_id, uid)
    IN  IF ~get_db_connection
        THEN Raised
        ELSE IF task # {}
        THEN LET t == CHOOSE t \in task : TRUE
                 title == "Copy of " \o t.title
             IN  IF row_rejected(title, t.category_id, t.priority)
                 THEN Raised
                 ELSE Outcome("redirect", "dashboard", "Task duplicated.", <<>>, <<>>,
                              tasks \cup
                                {task_row(task_seq + 1, uid, title, t.description,
                                          t.category_id, t.priority, t.due_date, now)},
                              task_seq + 1)
        ELSE Outcome("redirect", "dashboard", "Task duplicated.", <<>>, <<>>,
                     tasks, task_seq)

duplicate_task(c, task_id) ==
    LET req == Request(c, "duplicate_task", "GET", task_id)
    IN  login_required(c, req, Commit(req, duplicate_task_body(session[c], task_id)))

-----------------------------------------------------------------------------
(* Account handlers *)

ALLOWED_EXTENSIONS == {"png", "jpg", "jpeg", "gif"}

\* filename.rsplit('.', 1)[1].lower(), for the file names the model uploads
ExtTable == [f \in {"me.PNG", "me.exe"} |-> IF f = "me.PNG" THEN "png" ELSE "exe"]

allowed_file(filename) ==
    filename \in DOMAIN ExtTable /\ ExtTable[filename] \in ALLOWED_EXTENSIONS

\* users.email declared without UNIQUE
unique_violation_absent(email, user_id) == FALSE

\* email VARCHAR(255) UNIQUE NOT NULL: the statement that would store email
\* in the row of user_id (NULL: a new row) is rejected
unique_violation(email, user_id) ==
    \E u \in users : u.id # user_id /\ u.email = email

profile(c, method, form) ==
    LET req == Request(c, "profile", method, 0)
        uid == session[c]
        full_name == strip(IF form.full_name = NULL THEN "" ELSE form.full_name)
        email == Lower(strip(IF form.email = NULL THEN "" ELSE form.email))
        picture(u) ==
            IF Truthy(form.file) /\ allowed_file(form.file)
            THEN uid \o "_upload." \o ExtTable[form.file]
            ELSE u.profile_picture
    IN  login_required(c, req,
          IF method = "POST" /\ full_name # "" /\ email # ""
          THEN IF ~get_db_connection \/ unique_violation(email, uid)
               THEN Fault(req)
               ELSE /\ users' =
                        { IF u.id = uid
                          THEN [u EXCEPT !.full_name = full_name, !.email = email,
                                         !.bio = form.bio, !.location = form.location,
                                         !.website = form.website,
                                         !.profile_picture = picture(u),
                                         !.updated_at = now]
                          ELSE u : u \in users }
                    /\ Redirect(req, "profile", "Profile updated successfully!")
                    /\ UNCHANGED <<categories, tasks, task_seq, session, now, dbUp>>
          ELSE /\ Render(req, "PROFILE",
                         IF method = "POST" THEN "Name and email are required" ELSE "",
                         <<>>)
               /\ UNCHANGED <<users, categories, tasks, task_seq, session, now, dbUp>>)

\* the width of users.theme
ThemeMax == 20

settings(c, method, form) ==
    LET req == Request(c, "settings", method, 0)
        uid == session[c]
    IN  login_required(c, req,
          IF method = "POST"
          THEN IF ~get_db_connection \/ (form.theme # NULL /\ Len(form.theme) > ThemeMax)
               THEN Fault(req)
               ELSE /\ users' =
                        { IF u.id = uid
                          THEN [u EXCEPT !.theme = form.theme,
                                         !.notifications_enabled =
                                             (form.notifications_enabled = "true"),
                                         !.updated_at = now]
                          ELSE u : u \in users }
                    /\ Redirect(req, "settings", "Settings updated successfully!")
                    /\ UNCHANGED <<categories, tasks, task_seq, session, now, dbUp>>
          ELSE /\ Render(req, "SETTINGS", "", <<>>)
               /\ UNCHANGED <<users, categories, tasks, task_seq, session, now, dbUp>>)

\* dict.get(key, default) on a JSON object
json_get(json, key, default) == IF key \in DOMAIN json THEN json[key] ELSE default

update_theme(c, json) ==
    LET req == Request(c, "update_theme", "POST", 0)
        uid == session[c]
        theme == json_get(json, "theme", "dark")
    IN  login_required(c, req,
          IF ~get_db_connection \/ (theme # NULL /\ Len(theme) > ThemeMax)
          THEN Fault(req)
          ELSE /\ users' = { IF u.id = uid THEN [u EXCEPT !.theme = theme] ELSE u
                             : u \in users }
               /\ Respond(req, "json", "", "", <<>>, [success |-> TRUE])
               /\ UNCHANGED <<categories, tasks, task_seq, session, now, dbUp>>)

-----------------------------------------------------------------------------
(* The clock *)

Tick(points) ==
    /\ \E t \in points : t > now /\ now' = t
    /\ last' = [op |-> "tick", method |-> "", client |-> "", user |-> NULL, arg |-> 0,
                status |-> "none", target |-> "", flash |-> "", read |-> <<>>,
                page |-> <<>>, again |-> FALSE]
    /\ UNCHANGED <<users, categories, tasks, task_seq, session, dbUp, txn>>

-----------------------------------------------------------------------------
(* The store: psycopg2.connect fails from DbDown until DbUp *)

DbDown ==
    /\ dbUp /\ dbUp' = FALSE
    /\ last' = [op |-> "outage", method |-> "", client |-> "", user |-> NULL, arg |-> 0,
                status |-> "none", target |-> "", flash |-> "", read |-> <<>>,
                page |-> <<>>, again |-> FALSE]
    /\ UNCHANGED <<users, categories, tasks, task_seq, session, now, txn>>

DbUp ==
    /\ ~dbUp /\ dbUp' = TRUE
    /\ last' = [op |-> "recovery", method |-> "", client |-> "", user |-> NULL, arg |-> 0,
                status |-> "none", target |-> "", flash |-> "", read |-> <<>>,
                page |-> <<>>, again |-> FALSE]
    /\ UNCHANGED <<users, categories, tasks, task_seq, session, now, txn>>

\* delete_category under a foreign key declared ON DELETE CASCADE
delete_category_cascade(category_id) ==
    /\ \E g \in categories : g.id = category_id
    /\ categories' = {g \in categories : g.id # category_id}
    /\ tasks' = {t \in tasks : t.category_id # category_id}
    /\ last' = [op |-> "delete_category", method |-> "", client |-> "", user |-> NULL,
                arg |-> category_id, status |-> "none", target |-> "", flash |-> "",
                read |-> <<>>, again |-> FALSE,
                page |-> [referencing |-> {t.id : t \in {t \in tasks :
                                                          t.category_id = category_id}}]]
    /\ UNCHANGED <<users, task_seq, session, now, dbUp, txn>>

\* DELETE FROM categories WHERE id = %s, which no route issues: the schema
\* declares tasks.category_id REFERENCES categories(id) ON DELETE SET NULL
delete_category(category_id) ==
    /\ \E g \in categories : g.id = category_id
    /\ categories' = {g \in categories : g.id # category_id}
    /\ tasks' = { IF t.category_id = category_id
                  THEN [t EXCEPT !.category_id = NULL] ELSE t : t \in tasks }
    /\ last' = [op |-> "delete_category", method |-> "", client |-> "", user |-> NULL,
                arg |-> category_id, status |-> "none", target |-> "", flash |-> "",
                read |-> <<>>, again |-> FALSE,
                page |-> [referencing |-> {t.id : t \in {t \in tasks :
                                                          t.category_id = category_id}}]]
    /\ UNCHANGED <<users, task_seq, session, now, dbUp, txn>>

-----------------------------------------------------------------------------
(* The task lifecycle: two signed-up users, their browsers, the task routes *)

\* the accounts of Ann and Bob, as signup stored them at time 0
SeedUsers ==
    { user_row(UserId(1), "Ann", "a@x", hash_password("secret-a"), 0),
      user_row(UserId(2), "Bob", "b@x", hash_password("secret-b"), 0) }

SeedCategories ==
    create_default_categories(create_default_categories({}, UserId(1), 0), UserId(2), 0)

\* no thread is inside a handler
NoTxn == [w \in Workers |-> Idle]

NoRequest ==
    [op |-> "init", method |-> "", client |-> "", user |-> NULL, arg |-> 0,
     status |-> "none", target |-> "", flash |-> "", read |-> <<>>, page |-> <<>>,
     again |-> FALSE]

Init ==
    /\ users = SeedUsers
    /\ categories = SeedCategories
    /\ tasks = {}
    /\ task_seq = 0
    /\ session = [c \in Clients |-> NULL]
    /\ now = 3600
    /\ dbUp = TRUE
    /\ last = NoRequest
    /\ txn = NoTxn

LoginForms ==
    { [email |-> "A@X", password |-> "secret-a"],
      [email |-> "b@x", password |-> "secret-b"],
      [email |-> "a@x", password |-> "secret-b"] }

BlankForm ==
    [title |-> "  ", description |-> "d", category |-> "", priority |-> "high",
     due_date |-> ""]

RaisingForm ==
    [title |-> "b", description |-> NULL, category |-> "bogus", priority |-> NULL,
     due_date |-> "tomorrow"]

AddForms ==
    { BlankForm,
      [title |-> " a ", description |-> "d", category |-> "", priority |-> "high",
       due_date |-> "1970-01-02T01:00"] }

EditForms ==
    { BlankForm,
      [title |-> "b", description |-> NULL, category |-> CatId(1), priority |-> NULL,
       due_date |-> "1970-01-02T02:00"] }

\* the browser of the task lifecycle, and the points its clock visits
Browsers == {"c1"}

LifecycleClock == {3600, 91800}

TaskIds == 1..(MaxTasks + 1)

Referrers == {NULL, "/dashboard?filter=pending"}

Next ==
    \/ \E c \in Browsers, form \in LoginForms : login(c, "POST", form)
    \/ \E c \in Browsers : logout(c)
    \/ \E c \in Browsers : add_task(c, "GET", BlankForm)
    \/ \E c \in Browsers, form \in AddForms : add_task(c, "POST", form)
    \/ \E c \in Browsers, id \in TaskIds : edit_task(c, id, "GET", BlankForm)
    \/ \E c \in Browsers, id \in TaskIds, form \in EditForms :
          edit_task(c, id, "POST", form)
    \/ \E c \in Browsers, id \in TaskIds, r \in Referrers : toggle_task(c, id, r)
    \/ \E c \in Browsers, id \in TaskIds : delete_task(c, id)
    \/ \E c \in Browsers, id \in TaskIds : duplicate_task(c, id)
    \/ Tick(LifecycleClock)

Spec == Init /\ [][Next]_vars

-----------------------------------------------------------------------------
(* Properties of the task lifecycle *)

Mutations == {"edit_task", "toggle_task", "delete_task", "duplicate_task"}

UserIds == {u.id : u \in users}

\* C1: in every state reached through add_task, edit_task, toggle_task,
\* duplicate_task and delete_task, a stored task is completed exactly when
\* its completed_at is set.
C1_CompletedIffCompletedAt ==
    \A t \in tasks : t.completed <=> t.completed_at # NOTIME

\* a task reopened by a toggle, beside a completed one
C1_Witness ==
    /\ last.op = "toggle_task" /\ last.read = <<TRUE>>
    /\ \E t \in tasks : t.id = last.arg /\ ~t.completed /\ t.completed_at = NOTIME
    /\ \E t \in tasks : t.completed /\ t.completed_at # NOTIME

\* C2: toggle_task on a task the session user owns flips completed, sets
\* completed_at to the current time when it completes the task and clears it
\* when it reopens the task; no other field, no other task and no other
\* table changes.
C2_ToggleFlipsOnlyCompletion ==
    [][ (last'.op = "toggle_task" /\ \E t \in tasks : t.id = last'.arg /\ t.user_id = last'.user)
        => LET t == CHOOSE t \in tasks : t.id = last'.arg
           IN  /\ tasks' = (tasks \ {t}) \cup
                     {[t EXCEPT !.completed = ~t.completed,
                                !.completed_at = IF t.completed THEN NOTIME ELSE At(now)]}
               /\ UNCHANGED <<users, categories, task_seq, session>> ]_vars

\* a toggle completed one of two tasks after the clock had moved on
C2_Witness ==
    /\ last.op = "toggle_task" /\ last.read = <<FALSE>>
    /\ Cardinality(tasks) = 2
    /\ \E t \in tasks : t.id = last.arg /\ t.completed /\ t.completed_at = At(now)
                        /\ t.updated_at # now

\* C3: two toggle_task requests on an owned task, one after the other, leave
\* the task with the completed value the first one read, completed_at unset
\* if that was pending and set if it was completed.
C3_ToggleTwiceRestores ==
    [][ ( /\ last.op = "toggle_task" /\ last.read # <<>>
          /\ last'.op = "toggle_task" /\ last'.read # <<>>
          /\ last'.arg = last.arg /\ last'.user = last.user )
        => \E t \in tasks' : /\ t.id = last.arg
                             /\ t.completed = last.read[1]
                             /\ (t.completed_at # NOTIME) = last.read[1] ]_vars

\* the second of two toggles in a row, on a task that was pending at first
C3_Witness ==
    /\ last.op = "toggle_task" /\ last.again /\ last.read = <<TRUE>>
    /\ \E t \in tasks : t.id = last.arg /\ ~t.completed /\ t.completed_at = NOTIME

\* C4: a task mutation by session user U on a task id owned by another user
\* changes no task: none is modified, deleted or created.
C4_ForeignTaskUntouched ==
    [][ ( /\ last'.op \in Mutations /\ last'.user # NULL
          /\ \E t \in tasks : t.id = last'.arg /\ t.user_id # last'.user )
        => tasks' = tasks /\ task_seq' = task_seq ]_vars

\* a signed-in user posted an edit to another user's task
C4_Witness ==
    /\ last.op = "edit_task" /\ last.method = "POST" /\ last.user # NULL
    /\ \E t \in tasks : t.id = last.arg /\ t.user_id # last.user

response(o) == [status |-> o.status, target |-> o.target, flash |-> o.flash]

\* C5: to a signed-in user, each of edit_task, toggle_task, delete_task and
\* duplicate_task answers a task id owned by another user exactly as it
\* answers a task id that names no task.
C5_NoExistenceLeak ==
    \A uid \in UserIds :
    \A foreign \in {t.id : t \in {t \in tasks : t.user_id # uid}} :
    \A missing \in {id \in TaskIds : \A t \in tasks : t.id # id} :
        /\ \A m \in {"GET", "POST"}, form \in EditForms :
              response(edit_task_body(uid, foreign, m, form))
                = response(edit_task_body(uid, missing, m, form))
        /\ \A r \in Referrers :
              response(toggle_task_body(uid, foreign, r))
                = response(toggle_task_body(uid, missing, r))
        /\ response(delete_task_body(uid, foreign))
             = response(delete_task_body(uid, missing))
        /\ response(duplicate_task_body(uid, foreign))
             = response(duplicate_task_body(uid, missing))

\* a signed-in user asked to edit another user's task and was told it is not found
C5_Witness ==
    /\ last.op = "edit_task" /\ last.user # NULL
    /\ \E t \in tasks : t.id = last.arg /\ t.user_id # last.user
    /\ last.status = "redirect" /\ last.flash = "Task not found."

-----------------------------------------------------------------------------
(* The access gate: every protected route, with and without a session *)

GateLogin == [email |-> "a@x", password |-> "secret-a"]

GateAddForm ==
    [title |-> "a", description |-> "d", category |-> "", priority |-> "high",
     due_date |-> ""]

GateEditForm ==
    [title |-> "b", description |-> "d", category |-> CatId(1), priority |-> "low",
     due_date |-> ""]

ProfileForms ==
    { [full_name |-> " ", email |-> "a@x", bio |-> NULL, location |-> NULL,
       website |-> NULL, file |-> NULL],
      [full_name |-> "Ann B", email |-> "A@X", bio |-> "hi", location |-> NULL,
       website |-> NULL, file |-> "me.PNG"],
      [full_name |-> "Ann", email |-> "b@x", bio |-> NULL, location |-> NULL,
       website |-> NULL, file |-> "me.exe"] }

GateQueries == { <<NULL, NULL>>, <<"pending", "bogus">> }

SettingsForm == [theme |-> "light", notifications_enabled |-> NULL]

ThemeBodies == { [theme |-> "light"], [k \in {} |-> NULL] }

NextGate ==
    \/ \E c \in Browsers : login(c, "POST", GateLogin)
    \/ \E c \in Browsers : logout(c)
    \/ \E c \in Browsers, q \in GateQueries : dashboard(c, q[1], q[2])
    \/ \E c \in Browsers, form \in {GateAddForm, RaisingForm} : add_task(c, "POST", form)
    \/ \E c \in Browsers, id \in TaskIds, form \in {GateEditForm, RaisingForm} :
          edit_task(c, id, "POST", form)
    \/ \E c \in Browsers, id \in TaskIds : toggle_task(c, id, NULL)
    \/ \E c \in Browsers, id \in TaskIds : delete_task(c, id)
    \/ \E c \in Browsers, id \in TaskIds : duplicate_task(c, id)
    \/ \E c \in Browsers, m \in {"GET", "POST"}, form \in ProfileForms : profile(c, m, form)
    \/ \E c \in Browsers, m \in {"GET", "POST"} : settings(c, m, SettingsForm)
    \/ \E c \in Browsers, json \in ThemeBodies : update_theme(c, json)

SpecGate == Init /\ [][NextGate]_vars

Protected ==
    {"dashboard", "add_task", "edit_task", "toggle_task", "delete_task",
     "duplicate_task", "profile", "settings", "update_theme"}

\* C6: a request to a protected route from a browser whose session holds no
\* user_id is answered with a redirect to login and a flash message, and
\* leaves users, categories and tasks as they were.
C6_LoginRequired ==
    [][ (last'.op \in Protected /\ last'.user = NULL)
        => /\ last'.status = "redirect" /\ last'.target = "login"
           /\ last'.flash = "Please log in to access this page."
           /\ UNCHANGED <<users, categories, tasks, task_seq, session>> ]_vars

\* a browser that logged out asked to delete a task that exists
C6_Witness ==
    /\ last.op = "delete_task" /\ last.user = NULL
    /\ last.status = "redirect" /\ last.target = "login"
    /\ \E t \in tasks : t.id = last.arg

-----------------------------------------------------------------------------
(* The dashboard's derived views, over every small task table *)

\* when the row of a slot was added: the first two in the same instant
ViewCreated(id) == IF id <= 2 THEN 0 ELSE 60 * (id - 2)

\* a row as add_task stored it, toggled in the same instant if completed
ViewRow(id, owner, completed, due_date) ==
    [task_row(id, owner, "a", "d", NULL, "high", due_date, ViewCreated(id))
       EXCEPT !.completed = completed,
              !.completed_at = IF completed THEN At(ViewCreated(id)) ELSE NOTIME]

\* what a slot of the table may hold: nothing, a row of Ann, a row of Bob
ViewSlots ==
    {<<>>}
    \cup { <<UserId(1), completed, due_date>> :
             completed \in BOOLEAN,
             due_date \in {NOTIME, At(90000), At(93600)} }
    \cup { <<UserId(2), FALSE, At(90000)>> }

ViewTables ==
    { { ViewRow(i, f[i][1], f[i][2], f[i][3]) : i \in {i \in 1..MaxViewTasks : f[i] # <<>>} }
      : f \in [1..MaxViewTasks -> ViewSlots] }

ViewQueries == { <<NULL, NULL>>, <<"pending", NULL>> }

InitView ==
    /\ users = SeedUsers
    /\ categories = SeedCategories
    /\ tasks \in ViewTables
    /\ task_seq = MaxViewTasks
    /\ session = [c \in Clients |-> IF c \in Browsers THEN UserId(1) ELSE NULL]
    /\ now = 3600
    /\ dbUp = TRUE
    /\ last = NoRequest
    /\ txn = NoTxn

NextView ==
    \/ \E c \in Browsers, q \in ViewQueries : dashboard(c, q[1], q[2])
    \/ Tick(ClockPoints)

SpecView == InitView /\ [][NextView]_vars

Own(u) == {t \in tasks : t.user_id = u}

\* the time left until a task is due, in seconds
TimeToDue(t) == t.due_date[1] - now

\* C7: calculate_stats returns pending + completed = total, with total the
\* number of the owner's tasks and completed the number of them that are
\* completed; with no task, every count is zero.
C7_StatsCounts ==
    \A u \in UserIds : \A st \in calculate_stats(u) :
        /\ st.pending + st.completed = st.total
        /\ st.total = Cardinality(Own(u))
        /\ st.completed = Cardinality({t \in Own(u) : t.completed})
        /\ Own(u) = {} => st.total = 0 /\ st.completed = 0 /\ st.pending = 0
                          /\ st.overdue = 0

\* the dashboard showed one completed and one pending task of its user
C7_Witness ==
    /\ last.op = "dashboard" /\ last.status = "render"
    /\ last.page.stats.total = 2 /\ last.page.stats.completed = 1
    /\ last.page.stats.pending = 1
    /\ Cardinality(tasks) = 3

\* C8: completion_rate is 0 when total is 0, and otherwise
\* completed / total * 100 rounded to one decimal place: the tenth nearest
\* to it (one completed of two tasks gives 50.0).
C8_CompletionRate ==
    \A u \in UserIds : \A st \in calculate_stats(u) :
        LET total == Cardinality(Own(u))
            completed == Cardinality({t \in Own(u) : t.completed})
            off == st.completion_rate * total - 1000 * completed
        IN  /\ total = 0 => st.completion_rate = 0
            /\ total > 0 => 2 * off <= total /\ -2 * off <= total
            /\ (total = 2 /\ completed = 1) => st.completion_rate = 500

\* the dashboard showed two completed tasks of three: 66.7
C8_Witness ==
    /\ last.op = "dashboard" /\ last.status = "render"
    /\ last.page.stats.total = 3 /\ last.page.stats.completed = 2
    /\ last.page.stats.completion_rate = 667

\* C9: overdue is the number of the owner's tasks that are not completed and
\* have a due date strictly before now; it never exceeds pending.
C9_OverdueCount ==
    \A u \in UserIds : \A st \in calculate_stats(u) :
        /\ st.overdue =
              Cardinality({t \in Own(u) :
                              ~t.completed /\ t.due_date # NOTIME /\ t.due_date[1] < now})
        /\ st.overdue <= st.pending

\* the dashboard counted one overdue task beside a completed task that is past
\* its due date and a pending task due this very second
C9_Witness ==
    /\ last.op = "dashboard" /\ last.status = "render"
    /\ last.page.stats.overdue = 1
    /\ \E t \in Own(last.user) : t.completed /\ t.due_date # NOTIME /\ t.due_date[1] < now
    /\ \E t \in Own(last.user) : ~t.completed /\ t.due_date = At(now)

DueSoon(t) ==
    ~t.completed /\ t.due_date # NOTIME /\ 0 < TimeToDue(t) /\ TimeToDue(t) <= 86400

\* C10: get_due_notifications returns no notification for a task that is
\* completed, has no due date, or is due in 0 seconds or less or in more
\* than 86400 seconds, and exactly one for every other pending task of the
\* owner.
C10_NotificationSet ==
    \A u \in UserIds : \A ns \in get_due_notifications(u) :
        /\ \A i \in 1..Len(ns) :
              LET t == ns[i].task.task
              IN  t \in Own(u) /\ DueSoon(t)
        /\ \A t \in Own(u) :
              DueSoon(t) => Cardinality({i \in 1..Len(ns) : ns[i].task.task = t}) = 1

\* the dashboard notified of a task due in exactly 86400 seconds and left out
\* a completed task with the same due date and a task without due date
C10_Witness ==
    /\ last.op = "dashboard" /\ last.status = "render"
    /\ Len(last.page.notifications) = 1
    /\ last.page.notifications[1].due_date - now = 86400
    /\ \E t \in Own(last.user) : t.completed /\ t.due_date = At(now + 86400)
    /\ \E t \in Own(last.user) : ~t.completed /\ t.due_date = NOTIME

-----------------------------------------------------------------------------
(* The notification deriver *)

\* C11 as the specification words it: a pending task whose time-to-due is
\* exactly 86400 seconds is excluded from the list get_due_notifications
\* returns.
C11_DayBoundaryExcluded ==
    \A u \in UserIds : \A ns \in get_due_notifications(u) :
        \A i \in 1..Len(ns) :
            ~(~ns[i].task.task.completed /\ TimeToDue(ns[i].task.task) = 86400)

\* C11, amended: a pending task whose time-to-due is exactly 86400 seconds
\* is included in the list get_due_notifications returns, once and with
\* urgency 'today'; one second more and it is excluded.
C11_DayBoundaryIncluded ==
    \A u \in UserIds : \A ns \in get_due_notifications(u) :
        /\ \A t \in Own(u) :
              (~t.completed /\ t.due_date # NOTIME /\ TimeToDue(t) = 86400)
              => /\ Cardinality({i \in 1..Len(ns) : ns[i].task.task = t}) = 1
                 /\ \A i \in 1..Len(ns) : ns[i].task.task = t => ns[i].urgency = "today"
        /\ \A i \in 1..Len(ns) : TimeToDue(ns[i].task.task) < 86400 + 1

\* the dashboard notified of the task due in exactly 86400 seconds, as due
\* today, and not of the task due an hour later
C11_Witness ==
    /\ last.op = "dashboard" /\ last.status = "render"
    /\ \E i \in 1..Len(last.page.notifications) :
          /\ TimeToDue(last.page.notifications[i].task.task) = 86400
          /\ last.page.notifications[i].urgency = "today"
    /\ \E t \in Own(last.user) : ~t.completed /\ t.due_date # NOTIME /\ TimeToDue(t) = 90000

\* C12: every notification get_due_notifications returns is 'urgent' with
\* the message "Due in N minutes", N the whole minutes left, when its task is
\* due in less than 3600 seconds, and 'today' with the message "Due today at
\* HH:MM" of the due time when it is due in 3600 to 86400 seconds; there is
\* no other urgency.  A task due in 1800 seconds reads "Due in 30 minutes".
C12_Classification ==
    \A u \in UserIds : \A ns \in get_due_notifications(u) : \A i \in 1..Len(ns) :
        LET n == ns[i]
            left == TimeToDue(n.task.task)
            minutes == CHOOSE m \in 0..60 : 60 * m <= left /\ left < 60 * (m + 1)
        IN  /\ n.urgency \in {"urgent", "today"}
            /\ n.due_date = n.task.task.due_date[1]
            /\ left < 3600
               => /\ n.urgency = "urgent"
                  /\ n.message = "Due in " \o ToString(minutes) \o " minutes"
            /\ (3600 <= left /\ left <= 86400)
               => /\ n.urgency = "today"
                  /\ n.message = "Due today at " \o strftime_HM(n.due_date)
            /\ left = 1800 => n.message = "Due in 30 minutes"
            /\ left = 90 => n.message = "Due in 1 minutes"
            /\ (n.urgency = "today" /\ n.due_date = 90000)
               => n.message = "Due today at 01:00"

\* the dashboard notified of a task due in exactly one hour as due today at
\* 02:00, and the clock has passed the due time of another task
C12_Witness ==
    /\ last.op = "dashboard" /\ last.status = "render"
    /\ \E i \in 1..Len(last.page.notifications) :
          /\ TimeToDue(last.page.notifications[i].task.task) = 3600
          /\ last.page.notifications[i].urgency = "today"
          /\ last.page.notifications[i].message = "Due today at 02:00"
    /\ \E t \in Own(last.user) : ~t.completed /\ t.due_date = At(now)

\* the dashboard notified of a task due in 90 seconds: "Due in 1 minutes"
C12_WitnessUrgent ==
    /\ last.op = "dashboard" /\ last.status = "render"
    /\ \E i \in 1..Len(last.page.notifications) :
          /\ TimeToDue(last.page.notifications[i].task.task) = 90
          /\ last.page.notifications[i].urgency = "urgent"
          /\ last.page.notifications[i].message = "Due in 1 minutes"

\* C13: the list get_due_notifications returns is in ascending order of due
\* time: of two adjacent notifications the first is due no later than the
\* second.
C13_AscendingByDue ==
    \A u \in UserIds : \A ns \in get_due_notifications(u) :
        \A i \in 1..Len(ns) : i < Len(ns) => ns[i].due_date <= ns[i + 1].due_date

\* the dashboard notified of two tasks, the one due first being the one the
\* task listing shows last
C13_Witness ==
    /\ last.op = "dashboard" /\ last.status = "render"
    /\ Len(last.page.notifications) = 2
    /\ last.page.notifications[1].due_date < last.page.notifications[2].due_date
    /\ \E i, j \in 1..Len(last.page.tasks) :
          /\ i < j
          /\ last.page.tasks[i].task.created_at > last.page.tasks[j].task.created_at
          /\ last.page.tasks[i].task = last.page.notifications[2].task.task
          /\ last.page.tasks[j].task = last.page.notifications[1].task.task

-----------------------------------------------------------------------------
(* The task listing, over every small task table with categories *)

\* the number of task rows the listing specification starts from
MaxListTasks == 2

\* a row as add_task stored it, toggled in the same instant if completed
ListRow(id, owner, completed, due_date, category_id) ==
    [task_row(id, owner, "a", "d", category_id, "high", due_date, ViewCreated(id))
       EXCEPT !.completed = completed,
              !.completed_at = IF completed THEN At(ViewCreated(id)) ELSE NOTIME]

\* what a slot of the table may hold: nothing, a row of Ann, a row of Bob
ListSlots ==
    {<<>>}
    \cup { <<UserId(1), completed, due_date, category_id>> :
             completed \in BOOLEAN,
             due_date \in {NOTIME, At(90000)},
             category_id \in {NULL, CatId(1), CatId(2)} }
    \cup { <<UserId(2), FALSE, At(90000), CatId(5)>> }

ListTables ==
    { { ListRow(i, f[i][1], f[i][2], f[i][3], f[i][4])
        : i \in {i \in 1..MaxListTasks : f[i] # <<>>} }
      : f \in [1..MaxListTasks -> ListSlots] }

\* the values of ?filter= and ?category= the listing is asked with
ListFilters == {NULL, "pending", "completed", "overdue"}

ListCategories == {NULL, CatId(1)}

\* the points the clock of the listing visits: before, at and after the due time
ListClock == {3600, 90000, 91800}

InitList ==
    /\ users = SeedUsers
    /\ categories = SeedCategories
    /\ tasks \in ListTables
    /\ task_seq = MaxListTasks
    /\ session = [c \in Clients |-> IF c \in Browsers THEN UserId(1) ELSE NULL]
    /\ now = 3600
    /\ dbUp = TRUE
    /\ last = NoRequest
    /\ txn = NoTxn

NextList ==
    \/ \E c \in Browsers, f \in ListFilters, g \in ListCategories : dashboard(c, f, g)
    \/ Tick(ListClock)

SpecList == InitList /\ [][NextList]_vars

\* the status filter as the specification words it
Matches(t, f) ==
    CASE f = "pending" -> ~t.completed
      [] f = "completed" -> t.completed
      [] f = "overdue" -> ~t.completed /\ t.due_date # NOTIME /\ t.due_date[1] < now
      [] OTHER -> TRUE

\* the tasks a list of joined rows holds
TasksOf(rows) == {rows[i].task : i \in 1..Len(rows)}

\* C14: get_user_tasks(owner, filter) returns exactly the owner's tasks that
\* satisfy the filter, each once: the pending ones, the completed ones, the
\* pending ones due before now, or all of them without filter; never a task
\* of another user.
C14_FilterExact ==
    \A u \in UserIds, f \in ListFilters : \A rows \in get_user_tasks(u, f, NULL) :
        /\ TasksOf(rows) = {t \in Own(u) : Matches(t, f)}
        /\ Len(rows) = Cardinality(TasksOf(rows))
        /\ \A i \in 1..Len(rows) : rows[i].task.user_id = u

\* asked for the overdue tasks, the dashboard listed the one overdue task of
\* its user, who also owns a completed task past its due date
C14_Witness ==
    /\ last.op = "dashboard" /\ last.status = "render"
    /\ last.page.filter_param = "overdue" /\ last.page.category_param = NULL
    /\ Len(last.page.tasks) = 1
    /\ \E t \in Own(last.user) : t.completed /\ t.due_date # NOTIME /\ t.due_date[1] < now

\* C15: with a category filter, get_user_tasks returns only tasks whose
\* category id is the given one, never a task without category, and of those
\* exactly the ones the status filter admits.
C15_CategoryFilter ==
    \A u \in UserIds, f \in ListFilters, g \in {CatId(1), CatId(2), CatId(5), CatId(13)} :
    \A rows \in get_user_tasks(u, f, g) :
        /\ \A i \in 1..Len(rows) :
              rows[i].task.category_id = g /\ rows[i].task.category_id # NULL
        /\ TasksOf(rows) = {t \in Own(u) : Matches(t, f) /\ t.category_id = g}

\* asked for the pending tasks of a category, the dashboard listed one task
\* and left out a pending task of its user that has no category
C15_Witness ==
    /\ last.op = "dashboard" /\ last.status = "render"
    /\ last.page.filter_param = "pending" /\ last.page.category_param = CatId(1)
    /\ Len(last.page.tasks) = 1 /\ last.page.tasks[1].category_name = "Work"
    /\ \E t \in Own(last.user) : ~t.completed /\ t.category_id = NULL

-----------------------------------------------------------------------------
(* The listing while the store is unreachable *)

NextOutage ==
    \/ DbDown
    \/ DbUp
    \/ \E c \in Browsers, q \in GateQueries : dashboard(c, q[1], q[2])
    \/ \E c \in Browsers, q \in GateQueries : dashboard_outage(c, q[1], q[2])

SpecOutage == InitView /\ [][NextOutage]_vars

\* C17: while the store is unreachable, get_user_tasks returns the empty
\* list without raising, whatever its filters, calculate_stats returns zero
\* for every count and for the rate, and get_due_notifications returns the
\* empty list.
C17_OutageDegrades ==
    ~dbUp =>
      \A u \in UserIds :
        /\ \A f \in ListFilters, g \in {NULL, CatId(1), "bogus"} :
              ~get_user_tasks_raises(g) /\ get_user_tasks(u, f, g) = {<<>>}
        /\ calculate_stats(u) =
              {[total |-> 0, completed |-> 0, pending |-> 0, overdue |-> 0,
                completion_rate |-> 0]}
        /\ get_due_notifications(u) = {<<>>}

\* the dashboard lost the store after it had read its user, and rendered no
\* task, zero counts and no notification to a user whose task is due today
C17_Witness ==
    /\ last.op = "dashboard" /\ last.status = "render" /\ ~dbUp
    /\ last.page.tasks = <<>> /\ last.page.notifications = <<>>
    /\ last.page.stats.total = 0 /\ last.page.stats.completion_rate = 0
    /\ \E t \in Own(last.user) : DueSoon(t)
    /\ \E t \in Own(last.user) : t.completed

-----------------------------------------------------------------------------
(* Duplication: one user adds, completes, copies and lists tasks *)

RECURSIVE Repeat(_, _)
Repeat(s, n) ==
    IF n = 0 THEN ""
    ELSE IF n % 2 = 0 THEN LET half == Repeat(s, n \div 2) IN half \o half
    ELSE s \o Repeat(s, n - 1)

\* the longest title whose copy no longer fits tasks.title once prefixed
LongTitle == Repeat("x", TitleMax - 7)

CopyForms ==
    { [title |-> "a", description |-> "d", category |-> CatId(1), priority |-> "high",
       due_date |-> "1970-01-02T01:00"],
      [title |-> LongTitle, description |-> NULL, category |-> "", priority |-> "low",
       due_date |-> ""] }

NextCopy ==
    \/ \E c \in Browsers : login(c, "POST", GateLogin)
    \/ \E c \in Browsers : dashboard(c, NULL, NULL)
    \/ \E c \in Browsers, form \in CopyForms : add_task(c, "POST", form)
    \/ \E c \in Browsers, id \in TaskIds : toggle_task(c, id, NULL)
    \/ \E c \in Browsers, id \in TaskIds : duplicate_task(c, id)
    \/ Tick(LifecycleClock)

SpecCopy == Init /\ [][NextCopy]_vars

\* C18: duplicate_task on a task its user owns stores exactly one new task:
\* a new id, the same owner, the title "Copy of " and the original title,
\* the original's description, category, priority and due date, not
\* completed and without completed_at even if the original is completed;
\* the original and every other task stay as they were.
C18_DuplicateCopies ==
    [][ (last'.op = "duplicate_task"
         /\ \E t \in tasks : t.id = last'.arg /\ t.user_id = last'.user)
        => LET t == CHOOSE t \in tasks : t.id = last'.arg
           IN  \E n \in tasks' :
                 /\ n \notin tasks /\ tasks' = tasks \cup {n}
                 /\ \A o \in tasks : o.id # n.id
                 /\ n.user_id = t.user_id
                 /\ n.title = "Copy of " \o t.title
                 /\ n.description = t.description
                 /\ n.category_id = t.category_id
                 /\ n.priority = t.priority
                 /\ n.due_date = t.due_date
                 /\ ~n.completed /\ n.completed_at = NOTIME ]_vars

\* C16: the list get_user_tasks returns is in descending order of creation
\* time: under every filter, a task that add_task or duplicate_task created
\* at a later time stands before every task of the same owner created at an
\* earlier time.
C16_DescendingByCreation ==
    \A u \in UserIds, f \in ListFilters, g \in ListCategories :
    \A rows \in get_user_tasks(u, f, g) :
        \A i, j \in 1..Len(rows) :
            rows[i].task.created_at > rows[j].task.created_at => i < j

\* the dashboard listed the copy duplicate_task made before the original
\* that add_task had stored at an earlier time
C16_Witness ==
    /\ last.op = "dashboard" /\ last.status = "render"
    /\ Len(last.page.tasks) = 2
    /\ last.page.tasks[1].task.title = "Copy of a"
    /\ last.page.tasks[2].task.title = "a"
    /\ last.page.tasks[1].task.created_at > last.page.tasks[2].task.created_at
    /\ last.page.tasks[1].task.id > last.page.tasks[2].task.id

-----------------------------------------------------------------------------
(* Categories deleted under tasks that reference them *)

\* what a slot of the table may hold: nothing, a row of Ann or of Bob, in a
\* category of Ann, in a category of Bob or in none
CategorySlots ==
    {<<>>}
    \cup { <<UserId(1), completed, NOTIME, CatId(1)>> : completed \in BOOLEAN }
    \cup { <<UserId(1), FALSE, At(90000), category_id>> : category_id \in {NULL, CatId(2)} }
    \cup { <<UserId(2), FALSE, NOTIME, category_id>> : category_id \in {CatId(1), CatId(5)} }

CategoryTables ==
    { { ListRow(i, f[i][1], f[i][2], f[i][3], f[i][4])
        : i \in {i \in 1..MaxViewTasks : f[i] # <<>>} }
      : f \in [1..MaxViewTasks -> CategorySlots] }

InitCategory ==
    /\ users = SeedUsers
    /\ categories = SeedCategories
    /\ tasks \in CategoryTables
    /\ task_seq = MaxViewTasks
    /\ session = [c \in Clients |-> IF c \in Browsers THEN UserId(1) ELSE NULL]
    /\ now = 3600
    /\ dbUp = TRUE
    /\ last = NoRequest
    /\ txn = NoTxn

NextCategory ==
    \/ \E g \in {CatId(1), CatId(2), CatId(5)} : delete_category(g)
    \/ \E c \in Browsers, g \in ListCategories : dashboard(c, NULL, g)

SpecCategory == InitCategory /\ [][NextCategory]_vars

\* C19: deleting a category deletes no task: every task that referenced it
\* is still stored, with its category reference cleared and every other
\* field as it was, and every other task is as it was.
C19_CategoryDeleteKeepsTasks ==
    [][ last'.op = "delete_category"
        => /\ Cardinality(tasks') = Cardinality(tasks)
           /\ \A t \in tasks :
                 IF t.category_id = last'.arg
                 THEN [t EXCEPT !.category_id = NULL] \in tasks'
                 ELSE t \in tasks'
           /\ UNCHANGED <<users, task_seq>> ]_vars

\* a category two tasks referenced was deleted: both are stored without
\* category, beside a task that keeps its reference to another category
C19_Witness ==
    /\ last.op = "delete_category"
    /\ Cardinality(last.page.referencing) = 2
    /\ \A id \in last.page.referencing : \E t \in tasks : t.id = id /\ t.category_id = NULL
    /\ \E t \in tasks : t.category_id # NULL /\ t.category_id # last.arg

-----------------------------------------------------------------------------
(* Signing up: a fresh store, and signups that fail at any of their statements *)

InitSignup ==
    /\ users = {}
    /\ categories = {}
    /\ tasks = {}
    /\ task_seq = 0
    /\ session = [c \in Clients |-> NULL]
    /\ now = 3600
    /\ dbUp = TRUE
    /\ last = NoRequest
    /\ txn = NoTxn

SignupForms ==
    { [full_name |-> "Ann", email |-> "A@X", password |-> "secret-a",
       confirm_password |-> "secret-a"],
      [full_name |-> "Bob", email |-> "b@x", password |-> "secret-b",
       confirm_password |-> "secret-b"],
      [full_name |-> "Bob", email |-> "b@x", password |-> "secret-b",
       confirm_password |-> "secret-a"],
      [full_name |-> "Bob", email |-> "b@x", password |-> "abc",
       confirm_password |-> "abc"] }

TestLogin == [email |-> "test@example.com", password |-> "password123"]

NextSignup ==
    \/ \E c \in Browsers, form \in SignupForms : signup(c, "GET", form)
    \/ \E c \in Browsers, form \in SignupForms, failed_at \in 0..SignupStatements :
          signup_at(c, "POST", form, failed_at)
    \/ \E c \in Browsers, form \in LoginForms \cup {TestLogin} : login(c, "POST", form)
    \/ \E c \in Browsers : logout(c)
    \/ Tick(LifecycleClock)

SpecSignup == InitSignup /\ [][NextSignup]_vars

DefaultNames == {"Work", "Personal", "Health", "Learning"}

\* C20: in every reachable state, also after a signup that failed at one of
\* its inserts, each stored user owns exactly the four default categories
\* Work, Personal, Health and Learning; no user row is stored with fewer.
C20_SignupAtomic ==
    /\ \A u \in users :
          LET own == {g \in categories : g.user_id = u.id}
          IN  Cardinality(own) = 4 /\ {g.name : g \in own} = DefaultNames
    /\ \A g \in categories : \E u \in users : u.id = g.user_id

\* a signup failed at its third insert, after another signup had succeeded:
\* the one user stored owns four categories and the failed signup left no row
C20_Witness ==
    /\ last.op = "signup" /\ last.status = "fault" /\ last.arg = 3
    /\ Cardinality(users) = 1 /\ Cardinality(categories) = 4
    /\ \A u \in users : u.email = "a@x"

-----------------------------------------------------------------------------
(* Validation: forms that are refused, beside forms that are accepted *)

TitleForms ==
    { [title |-> t, description |-> "d", category |-> "", priority |-> "high",
       due_date |-> ""] : t \in {NULL, "", "  ", "a"} }

ValidationSignups ==
    { [full_name |-> "Cy", email |-> "c@x", password |-> "secret-c",
       confirm_password |-> "secret-d"],
      [full_name |-> "Cy", email |-> "c@x", password |-> "abcde",
       confirm_password |-> "abcde"],
      [full_name |-> "Ann", email |-> "A@X", password |-> "secret-c",
       confirm_password |-> "secret-c"],
      [full_name |-> "Cy", email |-> "c@x", password |-> "secret-c",
       confirm_password |-> "secret-c"] }

NextValidation ==
    \/ \E c \in Browsers : login(c, "POST", GateLogin)
    \/ \E c \in Browsers : logout(c)
    \/ \E c \in Browsers, form \in ValidationSignups : signup(c, "POST", form)
    \/ \E c \in Browsers, form \in TitleForms : add_task(c, "POST", form)
    \/ \E c \in Browsers, id \in TaskIds, form \in TitleForms :
          edit_task(c, id, "POST", form)
    \/ Tick(LifecycleClock)

SpecValidation == Init /\ [][NextValidation]_vars

\* a title that is missing, empty or made of whitespace
BlankTitles == {NULL, "", "  "}

\* a signup form with mismatching passwords, a password shorter than 6
\* characters or an email that is registered
RefusedSignup(form) ==
    \/ form.password # form.confirm_password
    \/ Len(form.password) < 6
    \/ \E u \in users : u.email = Lower(form.email)

\* C21: a request that fails validation leaves the store unchanged and
\* renders the form again with a flash message: add_task or edit_task with
\* an empty or whitespace-only title stores and modifies no task; signup
\* with mismatching passwords, a password shorter than 6 characters or a
\* registered email stores no user and no category.
C21_ValidationKeepsStore ==
    [][ /\ \A c \in Browsers, form \in TitleForms :
             (form.title \in BlankTitles /\ session[c] # NULL
              /\ add_task(c, "POST", form))
             => /\ UNCHANGED <<users, categories, tasks, task_seq>>
                /\ last'.status = "render" /\ last'.target = "ADD_TASK"
                /\ last'.flash = "Task title is required"
        /\ \A c \in Browsers, id \in TaskIds, form \in TitleForms :
             (form.title \in BlankTitles /\ session[c] # NULL
              /\ edit_task(c, id, "POST", form))
             => /\ UNCHANGED <<users, categories, tasks, task_seq>>
                /\ (\E t \in tasks : t.id = id /\ t.user_id = session[c])
                   => /\ last'.status = "render" /\ last'.target = "EDIT_TASK"
                      /\ last'.flash = "Task title is required"
        /\ \A c \in Browsers, form \in ValidationSignups :
             (RefusedSignup(form) /\ session[c] = NULL /\ signup(c, "POST", form))
             => /\ UNCHANGED <<users, categories, tasks, task_seq>>
                /\ last'.status = "render" /\ last'.target = "SIGNUP"
                /\ last'.flash # "" ]_vars

\* an edit with a blank title was posted to an owned task: the form is
\* rendered again and the task keeps its title
C21_Witness ==
    /\ last.op = "edit_task" /\ last.method = "POST" /\ last.status = "render"
    /\ last.flash = "Task title is required"
    /\ \E t \in tasks : t.id = last.arg /\ t.user_id = last.user /\ t.title = "a"

\* a signup with a registered email was refused beside the three stored users
C21_WitnessSignup ==
    /\ last.op = "signup" /\ last.status = "render"
    /\ last.flash = "An account with this email already exists."
    /\ Cardinality(users) = 3 /\ Cardinality(categories) = 12

-----------------------------------------------------------------------------
(* Faults: every handler, with the store coming and going *)

RaceSignup ==
    [full_name |-> "Cy", email |-> "c@x", password |-> "secret-c",
     confirm_password |-> "secret-c"]

\* two signups for one email, of browsers c and d: both pass get_user_by_email
\* before either INSERT; c's transaction commits, d's INSERT INTO users then
\* breaks UNIQUE(email) and the exception leaves d's handler
signup_race(c, d, form) ==
    /\ c # d /\ session[c] = NULL /\ session[d] = NULL
    /\ form.password = form.confirm_password
    /\ Len(form.password) >= MinPassword
    /\ get_user_by_email(Lower(form.email)) = {}
    /\ get_db_connection
    /\ insert_user(form.full_name, Lower(form.email), hash_password(form.password))
    /\ Respond(Request(d, "signup", "POST", 0), "fault", "", "", <<>>, <<>>)
    /\ UNCHANGED <<tasks, task_seq, session, now, dbUp>>

NextFault ==
    \/ \E c \in Browsers : login(c, "POST", GateLogin)
    \/ \E c \in Browsers : logout(c)
    \/ DbDown
    \/ DbUp
    \/ \E c \in Browsers : dashboard(c, NULL, NULL)
    \/ \E c \in Browsers : add_task(c, "POST", GateAddForm)
    \/ \E c \in Browsers, id \in TaskIds : edit_task(c, id, "POST", GateEditForm)
    \/ \E c \in Browsers, id \in TaskIds : toggle_task(c, id, NULL)
    \/ \E c \in Browsers, id \in TaskIds : delete_task(c, id)
    \/ \E c \in Browsers, id \in TaskIds : duplicate_task(c, id)
    \/ \E c \in Browsers, form \in ProfileForms : profile(c, "POST", form)
    \/ \E c \in Browsers : settings(c, "POST", SettingsForm)
    \/ \E c \in Browsers, json \in ThemeBodies : update_theme(c, json)
    \/ \E c \in Browsers : signup(c, "POST", RaceSignup)
    \/ \E c, d \in Clients : signup_race(c, d, RaceSignup)

SpecFault == Init /\ [][NextFault]_vars

\* C22: every request to every handler ends in a rendered page, a flash
\* message or a redirect and never in an unhandled fault, also when the store
\* is unreachable during a mutation, when profile changes the email to one
\* another user has, and when two signups for one email race.
C22_NoFault == last.status # "fault"

\* a mutation met the unreachable store and its exception left the handler
C22_FaultStoreDown ==
    /\ ~dbUp /\ last.status = "fault" /\ last.user # NULL
    /\ last.op \in {"add_task", "edit_task", "toggle_task", "delete_task",
                    "duplicate_task", "profile", "settings", "update_theme"}

\* profile posted another user's email with the store reachable
C22_FaultProfileEmail ==
    /\ dbUp /\ last.op = "profile" /\ last.status = "fault"
    /\ \E u \in users : u.id # last.user /\ u.email = "b@x"

\* the later of two racing signups
C22_FaultSignupRace ==
    /\ dbUp /\ last.op = "signup" /\ last.status = "fault"
    /\ \E u \in users : u.email = "c@x"

-----------------------------------------------------------------------------
(* Emails: signup, login and profile, with checks that ran early *)

\* signup whose get_user_by_email ran before other requests committed: its
\* INSERT INTO users meets the rows stored since
signup_late(c, form) ==
    LET req == Request(c, "signup", "POST", 0)
        email == Lower(form.email)
    IN  /\ session[c] = NULL
        /\ form.password = form.confirm_password
        /\ Len(form.password) >= MinPassword
        /\ get_db_connection
        /\ IF unique_violation(email, NULL)
           THEN Fault(req)
           ELSE /\ insert_user(form.full_name, email, hash_password(form.password))
                /\ Redirect(req, "login", "Account created successfully! Please log in.")
                /\ UNCHANGED <<tasks, task_seq, session, now, dbUp>>

\* login of the test user whose get_user_by_email ran before other requests
\* committed
login_late(c, form) ==
    LET req == Request(c, "login", "POST", 0)
        hashed_pw == hash_password("password123")
    IN  /\ session[c] = NULL
        /\ Lower(form.email) = "test@example.com"
        /\ get_db_connection
        /\ IF unique_violation("test@example.com", NULL)
           THEN Fault(req)
           ELSE /\ insert_user("Test User", "test@example.com", hashed_pw)
                /\ IF hashed_pw = hash_password(form.password)
                   THEN /\ session' = [session EXCEPT
                                         ![c] = UserId(Cardinality(users) + 1)]
                        /\ Redirect(req, "dashboard", "")
                   ELSE /\ UNCHANGED session
                        /\ Render(req, "LOGIN", "Invalid email or password.", <<>>)
                /\ UNCHANGED <<tasks, task_seq, now, dbUp>>

EmailProfiles ==
    { [full_name |-> "N", email |-> e, bio |-> NULL, location |-> NULL,
       website |-> NULL, file |-> NULL] : e \in {"A@X", " b@x ", "test@example.com"} }

NextEmail ==
    \/ \E c \in Browsers, form \in SignupForms : signup(c, "POST", form)
    \/ \E c \in Browsers, form \in SignupForms : signup_late(c, form)
    \/ \E c \in Browsers, form \in LoginForms \cup {TestLogin} : login(c, "POST", form)
    \/ \E c \in Browsers : login_late(c, TestLogin)
    \/ \E c \in Browsers : logout(c)
    \/ \E c \in Browsers, form \in EmailProfiles : profile(c, "POST", form)

SpecEmail == InitSignup /\ [][NextEmail]_vars

\* C23: in every state reached by interleaved signup, login (with the
\* creation of the test user) and profile requests, no two stored users have
\* the same email.
C23_UniqueEmail == \A u, v \in users : u.email = v.email => u.id = v.id

\* three users are stored and a profile update asking for the email of
\* another of them was rejected
C23_Witness ==
    /\ Cardinality(users) = 3
    /\ last.op = "profile" /\ last.method = "POST" /\ last.status = "fault"

-----------------------------------------------------------------------------
(* Themes: settings and api/update-theme with any body *)

ThemeForms ==
    { [theme |-> t, notifications_enabled |-> n] :
        t \in {"dark", "light", "solarized", NULL, Repeat("x", ThemeMax + 1)},
        n \in {"true", NULL} }

ThemeJson ==
    { [theme |-> "light"], [theme |-> "dark"], [theme |-> "solarized"],
      [theme |-> NULL], [k \in {} |-> NULL] }

NextTheme ==
    \/ \E c \in Browsers, form \in LoginForms : login(c, "POST", form)
    \/ \E c \in Browsers : logout(c)
    \/ \E c \in Browsers : signup(c, "POST", RaceSignup)
    \/ \E c \in Browsers, m \in {"GET", "POST"}, form \in ThemeForms : settings(c, m, form)
    \/ \E c \in Browsers, json \in ThemeJson : update_theme(c, json)

SpecTheme == Init /\ [][NextTheme]_vars

\* C24: in every state reached by signup, settings POST and api/update-theme
\* requests with any request body, the theme of every stored user is 'dark'
\* or 'light'.
C24_ThemeEnum == \A u \in users : u.theme \in {"dark", "light"}

\* api/update-theme stored a theme that is neither
C24_ThemeStored ==
    /\ last.op = "update_theme" /\ last.status = "json"
    /\ \E u \in users : u.id = last.user /\ u.theme = "solarized"

\* a settings form without the theme field stored NULL
C24_ThemeNull ==
    /\ last.op = "settings" /\ last.status = "redirect"
    /\ \E u \in users : u.id = last.user /\ u.theme = NULL

-----------------------------------------------------------------------------
(* Priorities: task forms with any priority field, or none *)

PriorityForms ==
    { [title |-> "a", description |-> "d", category |-> "", priority |-> p,
       due_date |-> ""] : p \in {"low", "medium", "high", "urgent", NULL} }

NextPriority ==
    \/ \E c \in Browsers : login(c, "POST", GateLogin)
    \/ \E c \in Browsers, form \in PriorityForms : add_task(c, "POST", form)
    \/ \E c \in Browsers, id \in TaskIds, form \in PriorityForms :
          edit_task(c, id, "POST", form)
    \/ \E c \in Browsers, id \in TaskIds : duplicate_task(c, id)
    \/ \E c \in Browsers, id \in TaskIds : delete_task(c, id)

SpecPriority == Init /\ [][NextPriority]_vars

Priorities == {"low", "medium", "high"}

\* C25: in every state reached by add_task, edit_task and duplicate_task
\* requests with any form contents, the priority of every stored task is low,
\* medium or high, and a task added without a priority field has priority
\* medium.
C25_PriorityEnum ==
    [][ /\ \A t \in tasks' : t.priority \in Priorities
        /\ \A c \in Browsers, form \in PriorityForms :
             (form.priority = NULL /\ session[c] # NULL
              /\ add_task(c, "POST", form) /\ task_seq' = task_seq + 1)
             => \E t \in tasks' : t.id = task_seq' /\ t.priority = "medium" ]_vars

\* add_task stored a priority outside the three
C25_PriorityStored ==
    /\ last.op = "add_task" /\ last.status = "redirect"
    /\ \E t \in tasks : t.id = task_seq /\ t.priority = "urgent"

\* add_task without a priority field stored NULL
C25_PriorityNull ==
    /\ last.op = "add_task" /\ last.status = "redirect"
    /\ \E t \in tasks : t.id = task_seq /\ t.priority = NULL

-----------------------------------------------------------------------------
(* The completed flag under every handler that meets a task *)

NextFrame ==
    \/ \E c \in Browsers : login(c, "POST", GateLogin)
    \/ \E c \in Browsers : dashboard(c, NULL, NULL)
    \/ \E c \in Browsers, form \in AddForms : add_task(c, "POST", form)
    \/ \E c \in Browsers, id \in TaskIds, form \in EditForms :
          edit_task(c, id, "POST", form)
    \/ \E c \in Browsers, id \in TaskIds : toggle_task(c, id, NULL)
    \/ \E c \in Browsers, id \in TaskIds : delete_task(c, id)
    \/ \E c \in Browsers, id \in TaskIds : duplicate_task(c, id)
    \/ Tick(LifecycleClock)

SpecFrame == Init /\ [][NextFrame]_vars

\* C26: the completed flag and completed_at of a stored task change only in
\* a toggle_task of that task by its owner: edit_task with a valid or a blank
\* title, add_task, duplicate_task, dashboard and the passing of time past
\* the due date leave both as they were in every task that stays stored.
C26_CompletedFrame ==
    [][ \A t \in tasks, s \in tasks' :
          (s.id = t.id /\ (s.completed # t.completed
                           \/ s.completed_at # t.completed_at))
          => /\ last'.op = "toggle_task" /\ last'.arg = t.id
             /\ last'.user = t.user_id ]_vars

\* a completed task was edited: it has the new title and is still completed
C26_Witness ==
    /\ last.op = "edit_task" /\ last.flash = "Task updated successfully!"
    /\ \E t \in tasks : /\ t.id = last.arg /\ t.title = "b"
                        /\ t.completed /\ t.completed_at # NOTIME

-----------------------------------------------------------------------------
(* Concurrent requests of one user on one task, statement by statement *)

\* toggle_task up to its SELECT: the thread holds the fetched row
toggle_select(w, c, task_id) ==
    LET task == select_task(task_id, session[c])
    IN  /\ ~txn[w].busy /\ session[c] # NULL /\ get_db_connection
        /\ txn' = [txn EXCEPT ![w] =
                     [busy |-> TRUE, client |-> c, user |-> session[c],
                      task_id |-> task_id,
                      read |-> IF task = {} THEN <<>>
                               ELSE <<(CHOOSE t \in task : TRUE).completed>>]]
        /\ UNCHANGED <<users, categories, tasks, task_seq, session, now, dbUp, last>>

\* a toggle whose UPDATE negates the stored flag instead of the fetched one
toggle_written_fresh(w) ==
    LET stored == {t \in tasks : t.id = txn[w].task_id}
    IN  IF stored = {} THEN new_status_of(txn[w].read[1])
        ELSE new_status_of((CHOOSE t \in stored : TRUE).completed)

\* new_status = not task[0], of the row the thread fetched
toggle_written(w) == new_status_of(txn[w].read[1])

\* toggle_task from its UPDATE on: datetime.now(), the UPDATE of the rows that
\* have the id now, the commit and the redirect
toggle_update(w) ==
    LET q == txn[w]
        req == [Request(q.client, "toggle_task", "GET", q.task_id) EXCEPT !.user = q.user]
    IN  /\ q.busy
        /\ tasks' = IF q.read # <<>>
                    THEN update_completed(q.task_id, toggle_written(w),
                                          IF toggle_written(w) THEN At(now) ELSE NOTIME)
                    ELSE tasks
        /\ Answer(req, "redirect", "dashboard", "", q.read, <<>>)
        /\ txn' = [txn EXCEPT ![w] = Idle]
        /\ UNCHANGED <<users, categories, task_seq, session, now, dbUp>>

\* edit_task from its UPDATE on, its SELECT having found the task before
\* other requests committed: the UPDATE meets the rows stored now
edit_task_late(c, task_id, form) ==
    LET req == Request(c, "edit_task", "POST", task_id)
    IN  /\ session[c] # NULL /\ get_db_connection
        /\ form_title(form) # "" /\ ~form_raises(form)
        /\ tasks' = update_task(task_id, session[c], form)
        /\ Redirect(req, "dashboard", "Task updated successfully!")
        /\ UNCHANGED <<users, categories, task_seq, session, now, dbUp>>

\* the ids the concurrent requests name: each is stored at some time
ConcIds == 1..MaxTasks

NextConc ==
    \/ \E c \in Browsers : login(c, "POST", GateLogin)
    \/ \E c \in Browsers : add_task(c, "POST", GateAddForm)
    \/ \E w \in Workers, c \in Browsers, id \in ConcIds : toggle_select(w, c, id)
    \/ \E w \in Workers : toggle_update(w)
    \/ \E c \in Browsers, id \in ConcIds : edit_task(c, id, "POST", GateEditForm)
    \/ \E c \in Browsers, id \in ConcIds : edit_task_late(c, id, GateEditForm)
    \/ \E c \in Browsers, id \in ConcIds : delete_task(c, id)
    \/ Tick(LifecycleClock)

SpecConc == Init /\ [][NextConc]_vars

TaskIdsOf(rows) == {t.id : t \in rows}

\* C27: when a toggle_task, between its read and its write, meets another
\* toggle_task, an edit_task or a delete_task of the same user on the same
\* task, the stored fields are those of the last committed write (the flag
\* the later toggle computed from its own read, the other columns as the
\* last edit left them), every stored task is completed exactly when its
\* completed_at is set, and a task that was deleted meanwhile is not stored
\* again by the write.
C27_LastWriteWins ==
    [][ /\ \A t \in tasks' : t.completed <=> t.completed_at # NOTIME
        /\ \A w \in Workers :
             (txn[w].busy /\ toggle_update(w))
             => /\ TaskIdsOf(tasks') \subseteq TaskIdsOf(tasks)
                /\ \A t \in tasks :
                     (t.id = txn[w].task_id /\ txn[w].read # <<>>)
                     => [t EXCEPT !.completed = ~txn[w].read[1],
                                  !.completed_at = IF txn[w].read[1] THEN NOTIME
                                                   ELSE At(now)] \in tasks'
        /\ \A c \in Browsers, id \in ConcIds :
             (session[c] # NULL /\ edit_task_late(c, id, GateEditForm))
             => /\ TaskIdsOf(tasks') \subseteq TaskIdsOf(tasks)
                /\ \A t \in tasks :
                     (t.id = id /\ t.user_id = session[c])
                     => \E s \in tasks' :
                          /\ s.id = id /\ s.title = GateEditForm.title
                          /\ s.completed = t.completed
                          /\ s.completed_at = t.completed_at ]_vars

\* two toggles read the open task before either wrote: the later write
\* committed what it computed, and the task is completed
C27_Witness ==
    /\ last.op = "toggle_task" /\ last.again /\ last.read = <<FALSE>>
    /\ \A w \in Workers : ~txn[w].busy
    /\ \E t \in tasks : /\ t.id = last.arg /\ t.completed
                        /\ t.completed_at = At(now) /\ now > t.updated_at

\* a toggle wrote after the task it had read was deleted: no row has the id
C27_WitnessDeleted ==
    /\ last.op = "toggle_task" /\ last.read # <<>>
    /\ ~ \E t \in tasks : t.id = last.arg

\* an edit committed between the read and the write of a toggle: the row has
\* the edit's title and the toggle's flag
C27_WitnessEdited ==
    /\ last.op = "toggle_task" /\ last.read = <<FALSE>>
    /\ \E t \in tasks : /\ t.id = last.arg /\ t.completed /\ t.title = "b"
                        /\ t.updated_at = now /\ t.created_at < now

-----------------------------------------------------------------------------
(* Sessions: two browsers logging in and out among protected requests *)

SessionLogins ==
    LoginForms \cup {TestLogin, [email |-> "test@example.com", password |-> "guess"],
                     [email |-> "c@x", password |-> "secret-a"]}

NextSession ==
    \/ \E c \in Clients, form \in SessionLogins : login(c, "POST", form)
    \/ \E c \in Clients : login(c, "GET", TestLogin)
    \/ \E c \in Clients : logout(c)
    \/ \E c \in Clients : signup(c, "POST", RaceSignup)
    \/ \E c \in Clients : dashboard(c, NULL, NULL)
    \/ \E c \in Clients : add_task(c, "POST", GateAddForm)
    \/ \E c \in Clients, id \in TaskIds : toggle_task(c, id, NULL)
    \/ \E c \in Clients : settings(c, "GET", SettingsForm)

SpecSession == Init /\ [][NextSession]_vars

\* C28: the session of a browser comes to hold a user_id only in a login POST
\* of that browser whose email is that of a stored user and whose password
\* hashes to that user's stored hash, and it then holds that user's id;
\* logout removes it; and while the session holds none, every protected
\* request of the browser is redirected to login and leaves it so.
C28_SessionLifecycle ==
    [][ \A c \in Clients :
          /\ (session'[c] # session[c] /\ session'[c] # NULL)
             => /\ session[c] = NULL
                /\ last'.op = "login" /\ last'.method = "POST" /\ last'.client = c
                /\ \E form \in SessionLogins :
                     /\ login(c, "POST", form)
                     /\ \E u \in users' : /\ u.id = session'[c]
                                          /\ u.email = Lower(form.email)
                                          /\ u.password = hash_password(form.password)
          /\ (last'.op = "logout" /\ last'.client = c) => session'[c] = NULL
          /\ (session[c] = NULL /\ last'.client = c /\ last'.op \in Protected)
             => /\ last'.status = "redirect" /\ last'.target = "login"
                /\ session'[c] = NULL ]_vars

\* the test user, created by its first login, logged out; the other browser
\* is still logged in
C28_Witness ==
    /\ last.op = "logout" /\ session[last.client] = NULL
    /\ \E u \in users : u.id = last.user /\ u.email = "test@example.com"
    /\ \E c \in Clients : session[c] # NULL

\* a browser without a session was redirected while the other one has one
C28_WitnessRedirect ==
    /\ last.op \in Protected /\ last.user = NULL /\ last.target = "login"
    /\ \E c \in Clients : session[c] # NULL

-----------------------------------------------------------------------------
(* Categories of tasks: forms naming any stored category *)

CategoryForms ==
    { [title |-> "a", description |-> "d", category |-> g, priority |-> "high",
       due_date |-> ""] : g \in {"", CatId(1), CatId(5)} }

NextOwnCategory ==
    \/ \E c \in Browsers : login(c, "POST", GateLogin)
    \/ \E c \in Browsers : dashboard(c, NULL, NULL)
    \/ \E c \in Browsers, form \in CategoryForms : add_task(c, "POST", form)
    \/ \E c \in Browsers, id \in TaskIds, form \in CategoryForms :
          edit_task(c, id, "POST", form)
    \/ \E c \in Browsers, id \in TaskIds : duplicate_task(c, id)
    \/ \E c \in Browsers, id \in TaskIds : delete_task(c, id)

SpecOwnCategory == Init /\ [][NextOwnCategory]_vars

\* C29: in every state reached by add_task, edit_task and duplicate_task
\* requests with any submitted category, every task whose category_id is set
\* references a category of the task's own owner, so that the rows of
\* get_user_tasks carry the name, color and icon of no other user's category.
C29_OwnCategory ==
    \A t \in tasks :
        t.category_id # NULL
        => \E g \in categories : g.id = t.category_id /\ g.user_id = t.user_id

\* add_task stored a task of one user in a category of another
C29_ForeignCategory ==
    /\ last.op = "add_task" /\ last.status = "redirect"
    /\ \E t \in tasks, g \in categories :
          /\ t.id = task_seq /\ t.user_id = last.user
          /\ g.id = t.category_id /\ g.user_id # t.user_id

\* the dashboard rendered a row with the name of another user's category
C29_ForeignName ==
    /\ last.op = "dashboard" /\ last.status = "render"
    /\ \E i \in 1..Len(last.page.tasks) :
          LET row == last.page.tasks[i]
          IN  /\ row.category_name # NULL
              /\ \E g \in categories : /\ g.id = row.task.category_id
                                       /\ g.user_id # last.user
                                       /\ g.name = row.category_name
-----------------------------------------------------------------------------
(* Logins that are refused, under the session specification *)

\* C30: a login POST that does not authenticate, its email unknown or its
\* password wrong, leaves users, categories and tasks as they were and the
\* session without a user_id, whatever email and password it submits.
C30_FailedLoginFrame ==
    [][ \A c \in Clients, form \in SessionLogins :
          (session[c] = NULL /\ login(c, "POST", form) /\ session'[c] = NULL)
          => /\ UNCHANGED <<users, categories, tasks>>
             /\ last'.status = "render" /\ last'.target = "LOGIN" ]_vars

\* a login as test@example.com with a wrong password was refused, and the
\* test user and its four categories are stored
C30_FailedLoginCreates ==
    /\ last.op = "login" /\ last.flash = "Invalid email or password."
    /\ session[last.client] = NULL
    /\ \E u \in users :
          /\ u.email = "test@example.com" /\ u.created_at = now
          /\ Cardinality({g \in categories : g.user_id = u.id}) = 4
    /\ \A c \in Clients : session[c] = NULL

====
